---- MODULE Spec2Model ----
(***************************************************************************)
(* Fixed-block memory pool allocator (createMemoryPool / allocateBlock /   *)
(* freeBlock / destroyMemoryPool).  The repository holds two              *)
(* implementations: src/main.cpp (definitions prefixed Main_) and          *)
(* src/unnamed/part_000 (definitions prefixed Part_).                      *)
(*                                                                         *)
(* Memory is modelled byte by byte: the backing region is a function from  *)
(* byte addresses to byte values, a link word is PtrSize bytes stored      *)
(* little-endian at the block's first address.                             *)
(***************************************************************************)
EXTENDS Integers, Sequences, FiniteSets, TLC

\* ------------------------------------------------------------------ bounds
\* Largest blockSize / poolSize argument a caller passes.
MaxBlockSize == 4
MaxPoolSize == 8
MaxRaceCalls == 3

\* --------------------------------------------------------------- platform
\* sizeof(MemoryBlock_t) == sizeof(void*) == sizeof(size_t): a 16-bit target
\* (FreeRTOS ports exist for such MCUs) keeps the byte-level state small.
PtrSize == 2

\* sizeof(MemoryPool_t): two void*, one MemoryBlock_t*, two size_t.
DescSize == 5 * PtrSize

NULL == 0

\* A byte of a malloc'ed region that was never written.
Indet == 0 - 1

\* Addresses the external allocator may hand out (all PtrSize-aligned; the
\* second one makes a region straddle a 256-byte boundary).
MallocAddrs == {16, 250, 512}

\* What a byte read outside the region (or never written) may turn out to be.
WildBytes == {0, 255}

BlockSizes == 0..MaxBlockSize
PoolSizes == 0..MaxPoolSize

NoPool ==
    [memoryStart |-> NULL, memoryEnd |-> NULL, freeList |-> NULL,
     blockSize |-> 0, poolSize |-> 0]

NoMem == [a \in {} |-> Indet]

EmptyHeap == [live |-> {}, acquired |-> 0, released |-> 0, log |-> <<>>]

\* An allocation some other part of the program holds throughout.
Foreign == [addr |-> 512, size |-> 4]

ForeignHeap ==
    [live |-> {Foreign}, acquired |-> Foreign.size, released |-> 0,
     log |-> <<>>]

\* ------------------------------------------------------- external allocator
Overlaps(a, n, b) == a < b.addr + b.size /\ b.addr < a + n

\* pvPortMalloc(size): NULL, or any free candidate address.
pvPortMalloc(h, size) ==
    {[ptr |-> NULL, heap |-> h]} \cup
    {[ptr |-> a,
      heap |-> [h EXCEPT !.live = @ \cup {[addr |-> a, size |-> size]},
                         !.acquired = @ + size]] :
        a \in {x \in MallocAddrs : \A b \in h.live : ~Overlaps(x, size, b)}}

RECURSIVE SumSizes(_)
SumSizes(S) ==
    IF S = {} THEN 0
    ELSE LET b == CHOOSE x \in S : TRUE IN b.size + SumSizes(S \ {b})

\* pvPortFree(ptr): the allocation at ptr is released and logged.
pvPortFree(h, ptr) ==
    LET gone == {b \in h.live : b.addr = ptr} IN
    [h EXCEPT !.live = @ \ gone,
              !.released = @ + SumSizes(gone),
              !.log = Append(@, ptr)]

\* ------------------------------------------------------------ link words
\* Byte k (little-endian) of pointer value v.
EncByte(v, k) == (v \div (256 ^ k)) % 256

RECURSIVE DecodeFrom(_, _)
DecodeFrom(f, k) ==
    IF k >= PtrSize THEN 0 ELSE f[k] + 256 * DecodeFrom(f, k + 1)

\* block->next = v, for block at address a: the bytes that lie in the region
\* are written; bytes past it land outside the model (see OutOfBounds).
WritePtr(m, a, v) ==
    [x \in DOMAIN m |->
        IF x >= a /\ x < a + PtrSize THEN EncByte(v, x - a) ELSE m[x]]

OutOfBounds(m, a) == \E k \in 0..(PtrSize - 1) : (a + k) \notin DOMAIN m

ByteVals(m, x) ==
    IF x \in DOMAIN m /\ m[x] # Indet THEN {m[x]} ELSE WildBytes

\* The values a read of block->next at address a can yield: one value when
\* every byte is a written byte of the region.
RECURSIVE PtrValuesFrom(_, _, _)
PtrValuesFrom(m, a, k) ==
    IF k >= PtrSize THEN {0}
    ELSE {b + 256 * r : b \in ByteVals(m, a + k),
                        r \in PtrValuesFrom(m, a, k + 1)}

PtrValues(m, a) == PtrValuesFrom(m, a, 0)

Readable(m, a) ==
    \A k \in 0..(PtrSize - 1) : (a + k) \in DOMAIN m /\ m[a + k] # Indet

\* block->next when Readable.
ReadPtr(m, a) == DecodeFrom([k \in 0..(PtrSize - 1) |-> m[a + k]], 0)

\* --------------------------------------------------------------- geometry
NumBlocks(p) == IF p.blockSize = 0 THEN 0 ELSE p.poolSize \div p.blockSize

BlockAddrs(p) ==
    {p.memoryStart + i * p.blockSize : i \in 0..(NumBlocks(p) - 1)}

FreshRegion(poolMemory, poolSize) ==
    [a \in poolMemory..(poolMemory + poolSize - 1) |-> Indet]

\* A link word stored at an address that is not PtrSize-aligned: an undefined
\* access, which a build either performs or traps on.
Misaligned(poolMemory, blockSize, numBlocks) ==
    \E i \in 0..(numBlocks - 1) : (poolMemory + i * blockSize) % PtrSize # 0

\* The process stopped by a fault in the middle of createMemoryPool.
Trap(h) ==
    [kind |-> "fault", ret |-> NULL, pool |-> NoPool, mem |-> NoMem,
     heap |-> h, ub |-> TRUE]

\* ------------------------------------------------------------ src/main.cpp
\* Mutant: the pool-size assertion is missing.
Mut_Asserts_NoPoolSize(blockSize, poolSize) ==
    /\ blockSize >= PtrSize
    /\ blockSize % PtrSize = 0

Main_Asserts(blockSize, poolSize) ==
    /\ blockSize >= PtrSize
    /\ poolSize > blockSize
    /\ blockSize % PtrSize = 0

\* Mutants of the loop: one block too many (i <= numBlocks), block 0 skipped
\* (i starts at 1), and the region walked from its last block down to its
\* first.
RECURSIVE Mut_InitLoop_OneMore(_, _, _, _, _, _, _)
Mut_InitLoop_OneMore(i, numBlocks, poolMemory, blockSize, m, freeList, oob) ==
    IF i > numBlocks
    THEN [mem |-> m, freeList |-> freeList, oob |-> oob]
    ELSE LET block == poolMemory + i * blockSize IN
         Mut_InitLoop_OneMore(i + 1, numBlocks, poolMemory, blockSize,
                              WritePtr(m, block, freeList), block,
                              oob \/ OutOfBounds(m, block))

RECURSIVE Mut_InitLoop_SkipFirst(_, _, _, _, _, _, _)
Mut_InitLoop_SkipFirst(i, numBlocks, poolMemory, blockSize, m, freeList, oob) ==
    IF i + 1 >= numBlocks
    THEN [mem |-> m, freeList |-> freeList, oob |-> oob]
    ELSE LET block == poolMemory + (i + 1) * blockSize IN
         Mut_InitLoop_SkipFirst(i + 1, numBlocks, poolMemory, blockSize,
                                WritePtr(m, block, freeList), block,
                                oob \/ OutOfBounds(m, block))

RECURSIVE Mut_InitLoop_Descending(_, _, _, _, _, _, _)
Mut_InitLoop_Descending(i, numBlocks, poolMemory, blockSize, m, freeList, oob) ==
    IF i >= numBlocks
    THEN [mem |-> m, freeList |-> freeList, oob |-> oob]
    ELSE LET block == poolMemory + (numBlocks - 1 - i) * blockSize IN
         Mut_InitLoop_Descending(i + 1, numBlocks, poolMemory, blockSize,
                                 WritePtr(m, block, freeList), block,
                                 oob \/ OutOfBounds(m, block))

\* for (i = 0; i < numBlocks; ++i) { block->next = freeList; freeList = block; }
RECURSIVE Main_InitLoop(_, _, _, _, _, _, _)
Main_InitLoop(i, numBlocks, poolMemory, blockSize, m, freeList, oob) ==
    IF i >= numBlocks
    THEN [mem |-> m, freeList |-> freeList, oob |-> oob]
    ELSE LET block == poolMemory + i * blockSize IN
         Main_InitLoop(i + 1, numBlocks, poolMemory, blockSize,
                       WritePtr(m, block, freeList), block,
                       oob \/ OutOfBounds(m, block))

\* Mutant: memoryEnd is set to the end of the last block, not of the region.
Mut_InitPool_EndAtLastBlock(poolMemory, pool, blockSize, poolSize, h) ==
    LET numBlocks == poolSize \div blockSize
        r == Main_InitLoop(0, numBlocks, poolMemory, blockSize,
                           FreshRegion(poolMemory, poolSize), NULL, FALSE)
        undef == r.oob \/ Misaligned(poolMemory, blockSize, numBlocks)
    IN  {[kind |-> "pool", ret |-> pool,
          pool |-> [memoryStart |-> poolMemory,
                    memoryEnd |-> poolMemory + numBlocks * blockSize,
                    freeList |-> r.freeList,
                    blockSize |-> blockSize,
                    poolSize |-> poolSize],
          mem |-> r.mem, heap |-> h, ub |-> r.oob]}
        \cup (IF undef THEN {Trap(h)} ELSE {})

Main_InitPool(poolMemory, pool, blockSize, poolSize, h) ==
    LET numBlocks == poolSize \div blockSize
        r == Main_InitLoop(0, numBlocks, poolMemory, blockSize,
                           FreshRegion(poolMemory, poolSize), NULL, FALSE)
        undef == r.oob \/ Misaligned(poolMemory, blockSize, numBlocks)
    IN  {[kind |-> "pool", ret |-> pool,
          pool |-> [memoryStart |-> poolMemory,
                    memoryEnd |-> poolMemory + poolSize,
                    freeList |-> r.freeList,
                    blockSize |-> blockSize,
                    poolSize |-> poolSize],
          mem |-> r.mem, heap |-> h, ub |-> r.oob]}
        \cup (IF undef THEN {Trap(h)} ELSE {})

\* Mutant: the region is not released when the descriptor cannot be acquired.
Mut_createMemoryPool_Leak(blockSize, poolSize, h) ==
    IF ~Main_Asserts(blockSize, poolSize)
    THEN {[kind |-> "abort", ret |-> NULL, pool |-> NoPool, mem |-> NoMem,
           heap |-> h, ub |-> FALSE]}
    ELSE UNION {
        IF r.ptr = NULL
        THEN {[kind |-> "null", ret |-> NULL, pool |-> NoPool, mem |-> NoMem,
               heap |-> r.heap, ub |-> FALSE]}
        ELSE UNION {
              IF d.ptr = NULL
              THEN {[kind |-> "null", ret |-> NULL, pool |-> NoPool,
                     mem |-> NoMem, heap |-> d.heap, ub |-> FALSE]}
              ELSE Main_InitPool(r.ptr, d.ptr, blockSize, poolSize, d.heap)
              : d \in pvPortMalloc(r.heap, DescSize)}
        : r \in pvPortMalloc(h, poolSize)}

Main_createMemoryPool(blockSize, poolSize, h) ==
    IF ~Main_Asserts(blockSize, poolSize)
    THEN {[kind |-> "abort", ret |-> NULL, pool |-> NoPool, mem |-> NoMem,
           heap |-> h, ub |-> FALSE]}
    ELSE UNION {
        IF r.ptr = NULL
        THEN {[kind |-> "null", ret |-> NULL, pool |-> NoPool, mem |-> NoMem,
               heap |-> r.heap, ub |-> FALSE]}
        ELSE UNION {
              IF d.ptr = NULL
              THEN {[kind |-> "null", ret |-> NULL, pool |-> NoPool,
                     mem |-> NoMem, heap |-> pvPortFree(d.heap, r.ptr),
                     ub |-> FALSE]}
              ELSE Main_InitPool(r.ptr, d.ptr, blockSize, poolSize, d.heap)
              : d \in pvPortMalloc(r.heap, DescSize)}
        : r \in pvPortMalloc(h, poolSize)}

\* Mutants of allocateBlock: the list is not advanced; the empty-list test is
\* missing; a block linked to itself is taken as the last one; the returned
\* block's link word is cleared.
Mut_allocateBlock_NoAdvance(pool, p, m) ==
    IF pool = NULL \/ p.freeList = NULL
    THEN {[ret |-> NULL, pool |-> p, mem |-> m]}
    ELSE {[ret |-> p.freeList, pool |-> p, mem |-> m]}

Mut_allocateBlock_NoEmptyCheck(pool, p, m) ==
    IF pool = NULL
    THEN {[ret |-> NULL, pool |-> p, mem |-> m]}
    ELSE {[ret |-> p.freeList, pool |-> [p EXCEPT !.freeList = nx],
           mem |-> m] :
            nx \in PtrValues(m, p.freeList)}

Mut_allocateBlock_BreaksSelfLink(pool, p, m) ==
    IF pool = NULL \/ p.freeList = NULL
    THEN {[ret |-> NULL, pool |-> p, mem |-> m]}
    ELSE {[ret |-> p.freeList,
           pool |-> [p EXCEPT !.freeList =
                        IF nx = p.freeList THEN NULL ELSE nx],
           mem |-> m] :
            nx \in PtrValues(m, p.freeList)}

Mut_allocateBlock_ClearsLink(pool, p, m) ==
    IF pool = NULL \/ p.freeList = NULL
    THEN {[ret |-> NULL, pool |-> p, mem |-> m]}
    ELSE {[ret |-> p.freeList, pool |-> [p EXCEPT !.freeList = nx],
           mem |-> WritePtr(m, p.freeList, NULL)] :
            nx \in PtrValues(m, p.freeList)}

\* Mutant: the list is advanced first and its new head returned.
Mut_allocateBlock_ReturnsNext(pool, p, m) ==
    IF pool = NULL \/ p.freeList = NULL
    THEN {[ret |-> NULL, pool |-> p, mem |-> m]}
    ELSE {[ret |-> nx, pool |-> [p EXCEPT !.freeList = nx],
           mem |-> m] :
            nx \in PtrValues(m, p.freeList)}

\* pool is the descriptor's address, p its fields, m the region's bytes.
Main_allocateBlock(pool, p, m) ==
    IF pool = NULL \/ p.freeList = NULL
    THEN {[ret |-> NULL, pool |-> p, mem |-> m]}
    ELSE {[ret |-> p.freeList, pool |-> [p EXCEPT !.freeList = nx],
           mem |-> m] :
            nx \in PtrValues(m, p.freeList)}

\* Mutants of freeBlock: the blockAddr test is missing; the head is stored
\* before the link word is written; the link word is set to NULL.
Mut_freeBlock_NoNullCheck(pool, p, m, blockAddr) ==
    IF pool = NULL
    THEN [pool |-> p, mem |-> m, ub |-> FALSE]
    ELSE [pool |-> [p EXCEPT !.freeList = blockAddr],
          mem |-> WritePtr(m, blockAddr, p.freeList),
          ub |-> OutOfBounds(m, blockAddr)]

Mut_freeBlock_HeadFirst(pool, p, m, blockAddr) ==
    IF pool = NULL \/ blockAddr = NULL
    THEN [pool |-> p, mem |-> m, ub |-> FALSE]
    ELSE [pool |-> [p EXCEPT !.freeList = blockAddr],
          mem |-> WritePtr(m, blockAddr, blockAddr),
          ub |-> OutOfBounds(m, blockAddr)]

Mut_freeBlock_LinksNull(pool, p, m, blockAddr) ==
    IF pool = NULL \/ blockAddr = NULL
    THEN [pool |-> p, mem |-> m, ub |-> FALSE]
    ELSE [pool |-> [p EXCEPT !.freeList = blockAddr],
          mem |-> WritePtr(m, blockAddr, NULL),
          ub |-> OutOfBounds(m, blockAddr)]

\* Mutant: the freed block's link word is not written.
Mut_freeBlock_NoLink(pool, p, m, blockAddr) ==
    IF pool = NULL \/ blockAddr = NULL
    THEN [pool |-> p, mem |-> m, ub |-> FALSE]
    ELSE [pool |-> [p EXCEPT !.freeList = blockAddr],
          mem |-> m,
          ub |-> FALSE]

Main_freeBlock(pool, p, m, blockAddr) ==
    IF pool = NULL \/ blockAddr = NULL
    THEN [pool |-> p, mem |-> m, ub |-> FALSE]
    ELSE [pool |-> [p EXCEPT !.freeList = blockAddr],
          mem |-> WritePtr(m, blockAddr, p.freeList),
          ub |-> OutOfBounds(m, blockAddr)]

\* Mutant: the descriptor is released before the region.
Mut_destroyMemoryPool_DescFirst(pool, p, h) ==
    IF pool = NULL THEN h
    ELSE pvPortFree(pvPortFree(h, pool), p.memoryStart)

\* Mutant: only the descriptor is released.
Mut_destroyMemoryPool_DescOnly(pool, p, h) ==
    IF pool = NULL THEN h
    ELSE pvPortFree(h, pool)

Main_destroyMemoryPool(pool, p, h) ==
    IF pool = NULL THEN h
    ELSE pvPortFree(pvPortFree(h, p.memoryStart), pool)

\* ---------------------------------------------------- src/unnamed/part_000
Part_Asserts(blockSize, poolSize) ==
    /\ blockSize > 0
    /\ poolSize > blockSize

RECURSIVE Part_InitLoop(_, _, _, _, _, _, _)
Part_InitLoop(i, numBlocks, poolMemory, blockSize, m, freeList, oob) ==
    IF ~(i < numBlocks)
    THEN [mem |-> m, freeList |-> freeList, oob |-> oob]
    ELSE LET block == poolMemory + i * blockSize IN
         Part_InitLoop(i + 1, numBlocks, poolMemory, blockSize,
                       WritePtr(m, block, freeList), block,
                       oob \/ OutOfBounds(m, block))

Part_InitPool(poolMemory, pool, blockSize, poolSize, h) ==
    LET numBlocks == poolSize \div blockSize
        r == Part_InitLoop(0, numBlocks, poolMemory, blockSize,
                           FreshRegion(poolMemory, poolSize), NULL, FALSE)
        undef == r.oob \/ Misaligned(poolMemory, blockSize, numBlocks)
    IN  {[kind |-> "pool", ret |-> pool,
          pool |-> [memoryStart |-> poolMemory,
                    memoryEnd |-> poolMemory + poolSize,
                    freeList |-> r.freeList,
                    blockSize |-> blockSize,
                    poolSize |-> poolSize],
          mem |-> r.mem, heap |-> h, ub |-> r.oob]}
        \cup (IF undef THEN {Trap(h)} ELSE {})

Part_createMemoryPool(blockSize, poolSize, h) ==
    IF ~Part_Asserts(blockSize, poolSize)
    THEN {[kind |-> "abort", ret |-> NULL, pool |-> NoPool, mem |-> NoMem,
           heap |-> h, ub |-> FALSE]}
    ELSE UNION {
        IF r.ptr = NULL
        THEN {[kind |-> "null", ret |-> NULL, pool |-> NoPool, mem |-> NoMem,
               heap |-> r.heap, ub |-> FALSE]}
        ELSE UNION {
              IF d.ptr = NULL
              THEN {[kind |-> "null", ret |-> NULL, pool |-> NoPool,
                     mem |-> NoMem, heap |-> pvPortFree(d.heap, r.ptr),
                     ub |-> FALSE]}
              ELSE Part_InitPool(r.ptr, d.ptr, blockSize, poolSize, d.heap)
              : d \in pvPortMalloc(r.heap, DescSize)}
        : r \in pvPortMalloc(h, poolSize)}

\* No check of pool itself: callers pass a non-null pool.
Part_allocateBlock(pool, p, m) ==
    IF p.freeList = NULL
    THEN {[ret |-> NULL, pool |-> p, mem |-> m]}
    ELSE {[ret |-> p.freeList, pool |-> [p EXCEPT !.freeList = nx],
           mem |-> m] :
            nx \in PtrValues(m, p.freeList)}

Part_freeBlock(pool, p, m, blockAddr) ==
    IF blockAddr = NULL
    THEN [pool |-> p, mem |-> m, ub |-> FALSE]
    ELSE [pool |-> [p EXCEPT !.freeList = blockAddr],
          mem |-> WritePtr(m, blockAddr, p.freeList),
          ub |-> OutOfBounds(m, blockAddr)]

Part_destroyMemoryPool(pool, p, h) ==
    IF pool = NULL THEN h
    ELSE pvPortFree(pvPortFree(h, p.memoryStart), pool)

\* ------------------------------------------------------------ the program
\* impl names the implementation the run executes.
createMemoryPool(im, blockSize, poolSize, h) ==
    IF im = "main"
    THEN Main_createMemoryPool(blockSize, poolSize, h)
    ELSE Part_createMemoryPool(blockSize, poolSize, h)

allocateBlock(im, pool, p, m) ==
    IF im = "main" THEN Main_allocateBlock(pool, p, m)
    ELSE Part_allocateBlock(pool, p, m)

freeBlock(im, pool, p, m, blockAddr) ==
    IF im = "main" THEN Main_freeBlock(pool, p, m, blockAddr)
    ELSE Part_freeBlock(pool, p, m, blockAddr)

destroyMemoryPool(im, pool, p, h) ==
    IF im = "main" THEN Main_destroyMemoryPool(pool, p, h)
    ELSE Part_destroyMemoryPool(pool, p, h)

VARIABLES
    impl,       \* "main" or "part_000"
    state,      \* "Uninitialized", "Active", "Destroyed", "Aborted", "Crashed"
    poolPtr,    \* the caller's MemoryPool_t* (NULL: none)
    pool,       \* the descriptor's fields
    mem,        \* the backing region's bytes
    held,       \* handles the callers hold
    heap,       \* the external allocator: live allocations, byte counts, log
    last,       \* the last call: operation, arguments, return value
    attempts,   \* createMemoryPool calls made
    fresh,      \* no block was freed since creation
    calls,      \* allocateBlock calls since creation, while fresh
    ub,         \* an access outside the region has happened
    twin,       \* the same calls made on the other implementation
    ctx         \* two execution contexts inside allocateBlock / freeBlock

vars ==
    <<impl, state, poolPtr, pool, mem, held, heap, last, attempts, fresh,
      calls, ub, twin, ctx>>

Call(op, blockSize, poolSize, arg, ret) ==
    [op |-> op, blockSize |-> blockSize, poolSize |-> poolSize,
     arg |-> arg, ret |-> ret]

CallCap == MaxPoolSize + 1

\* The second program of a side-by-side run, before its first call.
NoTwin ==
    [state |-> "Uninitialized", poolPtr |-> NULL, pool |-> NoPool,
     mem |-> NoMem, held |-> {}, heap |-> EmptyHeap,
     last |-> Call("none", 0, 0, NULL, NULL), ub |-> FALSE]

\* The execution contexts that call into one pool, all outside any call.
Ctxs == {1, 2}

NoCtx ==
    [sync |-> FALSE, lock |-> 0, n |-> 0,
     pc |-> [c \in Ctxs |-> "idle"],
     block |-> [c \in Ctxs |-> NULL],
     tmp |-> [c \in Ctxs |-> NULL],
     heldBy |-> [c \in Ctxs |-> {}]]

Init ==
    /\ impl \in {"main", "part_000"}
    /\ state = "Uninitialized"
    /\ poolPtr = NULL
    /\ pool = NoPool
    /\ mem = NoMem
    /\ held = {}
    /\ heap \in {EmptyHeap, ForeignHeap}
    /\ last = Call("none", 0, 0, NULL, NULL)
    /\ attempts = 0
    /\ fresh = FALSE
    /\ calls = 0
    /\ ub = FALSE
    /\ twin = NoTwin
    /\ ctx = NoCtx

\* The caller's pool argument is one the implementation handles: the live
\* pool, or (where the code tests for it) NULL.  A run is not followed past
\* an access outside the region: nothing defines what the program does then.
PoolArgOk ==
    /\ ~ub
    /\ \/ state = "Active"
       \/ state = "Uninitialized" /\ impl = "main"

\* A run is one pool's lifetime: like each test of the source, it calls
\* createMemoryPool once.
Create ==
    /\ state = "Uninitialized"
    /\ attempts = 0
    /\ \E blockSize \in BlockSizes, poolSize \in PoolSizes :
         \E o \in createMemoryPool(impl, blockSize, poolSize, heap) :
            /\ state' = CASE o.kind = "abort" -> "Aborted"
                          [] o.kind = "fault" -> "Crashed"
                          [] o.kind = "null" -> "Uninitialized"
                          [] OTHER -> "Active"
            /\ poolPtr' = o.ret
            /\ pool' = o.pool
            /\ mem' = o.mem
            /\ heap' = o.heap
            /\ ub' = o.ub
            /\ fresh' = (o.kind = "pool")
            /\ last' = Call("create", blockSize, poolSize, NULL, o.ret)
    /\ held' = {}
    /\ calls' = 0
    /\ attempts' = attempts + 1
    /\ UNCHANGED <<impl, twin, ctx>>

Allocate ==
    /\ PoolArgOk
    /\ \E o \in allocateBlock(impl, poolPtr, pool, mem) :
         /\ pool' = o.pool
         /\ mem' = o.mem
         /\ held' = IF o.ret # NULL THEN held \cup {o.ret} ELSE held
         /\ last' = Call("allocate", 0, 0, poolPtr, o.ret)
    /\ ub' = (ub \/ (poolPtr # NULL /\ pool.freeList # NULL
                        /\ ~Readable(mem, pool.freeList)))
    /\ calls' = IF fresh /\ calls < CallCap THEN calls + 1 ELSE calls
    /\ UNCHANGED <<impl, state, poolPtr, heap, attempts, fresh, twin, ctx>>

Free ==
    /\ PoolArgOk
    /\ \E blockAddr \in held \cup {NULL} :
         LET r == freeBlock(impl, poolPtr, pool, mem, blockAddr) IN
         /\ pool' = r.pool
         /\ mem' = r.mem
         /\ ub' = (ub \/ r.ub)
         /\ held' = held \ {blockAddr}
         /\ fresh' = (fresh /\ blockAddr = NULL)
         /\ calls' = IF fresh /\ blockAddr = NULL THEN calls ELSE 0
         /\ last' = Call("free", 0, 0, blockAddr, NULL)
    /\ UNCHANGED <<impl, state, poolPtr, heap, attempts, twin, ctx>>

Destroy ==
    /\ ~ub
    /\ state \in {"Active", "Uninitialized"}
    /\ heap' = destroyMemoryPool(impl, poolPtr, pool, heap)
    /\ state' = IF poolPtr = NULL THEN state ELSE "Destroyed"
    /\ last' = Call("destroy", 0, 0, poolPtr, NULL)
    /\ UNCHANGED <<impl, poolPtr, pool, mem, held, attempts, fresh, calls, ub,
                   twin, ctx>>

Next == Create \/ Allocate \/ Free \/ Destroy

Spec == Init /\ [][Next]_vars

\* ------------------------------------------------------------- vocabulary
\* The creation contract: blockSize holds a link word and is a multiple of
\* the pointer alignment, and the pool holds more than one block's bytes.
ContractOk(blockSize, poolSize) ==
    /\ blockSize >= PtrSize
    /\ blockSize % PtrSize = 0
    /\ poolSize > blockSize

\* The addresses met walking next links from a, at most fuel of them.
RECURSIVE Walk(_, _, _)
Walk(m, a, fuel) ==
    IF a = NULL \/ fuel = 0 THEN <<>>
    ELSE <<a>> \o (IF Readable(m, a)
                   THEN Walk(m, ReadPtr(m, a), fuel - 1)
                   ELSE <<>>)

FreeListSeq(p, m) == Walk(m, p.freeList, NumBlocks(p) + 1)

FreeSet(p, m) == {FreeListSeq(p, m)[k] : k \in 1..Len(FreeListSeq(p, m))}

InBounds(p, a) ==
    /\ p.memoryStart <= a
    /\ a < p.memoryEnd
    /\ (a - p.memoryStart) % p.blockSize = 0

ValidActive ==
    state = "Active" /\ ContractOk(pool.blockSize, pool.poolSize)

\* Misuse: a caller frees again the block it has just freed (freeBlock has no
\* way to tell: it validates nothing).
DoubleFree ==
    /\ PoolArgOk
    /\ state = "Active"
    /\ last.op = "free" /\ last.arg # NULL
    /\ LET blockAddr == last.arg
           r == freeBlock(impl, poolPtr, pool, mem, blockAddr) IN
         /\ pool' = r.pool
         /\ mem' = r.mem
         /\ ub' = (ub \/ r.ub)
         /\ held' = held \ {blockAddr}
         /\ last' = Call("free", 0, 0, blockAddr, NULL)
    /\ fresh' = FALSE
    /\ calls' = 0
    /\ UNCHANGED <<impl, state, poolPtr, heap, attempts, twin, ctx>>

\* The block at the head of the free list links to itself.
HeadCycle ==
    /\ state = "Active"
    /\ pool.freeList # NULL
    /\ Readable(mem, pool.freeList)
    /\ ReadPtr(mem, pool.freeList) = pool.freeList

\* The misuse scenario: valid use, a double free, and from then on
\* allocateBlock calls (and the pool's destruction); frees of further blocks
\* onto the corrupted list are not followed.
FreeSound == ~HeadCycle /\ Free

NextMisuse == Create \/ Allocate \/ FreeSound \/ DoubleFree \/ Destroy

SpecMisuse == Init /\ [][NextMisuse]_vars

\* ------------------------------------------------- the two implementations
\* Side by side: the calls of one caller go to src/main.cpp (the variables
\* above) and to src/unnamed/part_000 (twin), each with its own heap, so the
\* two pools may lie at different addresses.  A handle is carried from one
\* side to the other as its offset from memoryStart.
InitPair ==
    /\ impl = "main"
    /\ state = "Uninitialized"
    /\ poolPtr = NULL
    /\ pool = NoPool
    /\ mem = NoMem
    /\ held = {}
    /\ heap \in {EmptyHeap, ForeignHeap}
    /\ last = Call("none", 0, 0, NULL, NULL)
    /\ attempts = 0
    /\ fresh = FALSE
    /\ calls = 0
    /\ ub = FALSE
    /\ twin = [NoTwin EXCEPT !.heap = heap]
    /\ ctx = NoCtx

\* The same handle on the other side.
Rebase(a, from, to) == IF a = NULL THEN NULL ELSE to + (a - from)

\* The external allocator answers both sides alike: it grants the same bytes.
PairCreate ==
    /\ state = "Uninitialized" /\ twin.state = "Uninitialized"
    /\ attempts = 0
    /\ \E blockSize \in BlockSizes, poolSize \in PoolSizes :
         /\ blockSize >= PtrSize /\ blockSize % PtrSize = 0
         /\ poolSize > blockSize
         /\ \E o \in Main_createMemoryPool(blockSize, poolSize, heap),
               t \in Part_createMemoryPool(blockSize, poolSize, twin.heap) :
              /\ o.heap.acquired - heap.acquired
                    = t.heap.acquired - twin.heap.acquired
              /\ state' = CASE o.kind = "abort" -> "Aborted"
                            [] o.kind = "fault" -> "Crashed"
                            [] o.kind = "null" -> "Uninitialized"
                            [] OTHER -> "Active"
              /\ poolPtr' = o.ret
              /\ pool' = o.pool
              /\ mem' = o.mem
              /\ heap' = o.heap
              /\ ub' = o.ub
              /\ fresh' = (o.kind = "pool")
              /\ last' = Call("create", blockSize, poolSize, NULL, o.ret)
              /\ twin' = [state |-> CASE t.kind = "abort" -> "Aborted"
                                      [] t.kind = "fault" -> "Crashed"
                                      [] t.kind = "null" -> "Uninitialized"
                                      [] OTHER -> "Active",
                          poolPtr |-> t.ret, pool |-> t.pool, mem |-> t.mem,
                          held |-> {}, heap |-> t.heap,
                          last |-> Call("create", blockSize, poolSize,
                                        NULL, t.ret),
                          ub |-> t.ub]
    /\ held' = {}
    /\ calls' = 0
    /\ attempts' = attempts + 1
    /\ UNCHANGED <<impl, ctx>>

PairAllocate ==
    /\ state = "Active" /\ twin.state = "Active"
    /\ ~ub /\ ~twin.ub
    /\ \E o \in Main_allocateBlock(poolPtr, pool, mem),
          t \in Part_allocateBlock(twin.poolPtr, twin.pool, twin.mem) :
         /\ pool' = o.pool
         /\ mem' = o.mem
         /\ held' = IF o.ret # NULL THEN held \cup {o.ret} ELSE held
         /\ last' = Call("allocate", 0, 0, poolPtr, o.ret)
         /\ twin' = [twin EXCEPT
                       !.pool = t.pool,
                       !.mem = t.mem,
                       !.held = IF t.ret # NULL THEN @ \cup {t.ret} ELSE @,
                       !.last = Call("allocate", 0, 0, twin.poolPtr, t.ret),
                       !.ub = ~Readable(twin.mem, twin.pool.freeList)
                                 /\ twin.pool.freeList # NULL]
    /\ ub' = (pool.freeList # NULL /\ ~Readable(mem, pool.freeList))
    /\ calls' = IF fresh /\ calls < CallCap THEN calls + 1 ELSE calls
    /\ UNCHANGED <<impl, state, poolPtr, heap, attempts, fresh, ctx>>

PairFree ==
    /\ state = "Active" /\ twin.state = "Active"
    /\ ~ub /\ ~twin.ub
    /\ \E blockAddr \in held \cup {NULL} :
         LET other == Rebase(blockAddr, pool.memoryStart,
                             twin.pool.memoryStart)
             r == Main_freeBlock(poolPtr, pool, mem, blockAddr)
             t == Part_freeBlock(twin.poolPtr, twin.pool, twin.mem, other)
         IN
         /\ pool' = r.pool
         /\ mem' = r.mem
         /\ ub' = r.ub
         /\ held' = held \ {blockAddr}
         /\ fresh' = (fresh /\ blockAddr = NULL)
         /\ calls' = IF fresh /\ blockAddr = NULL THEN calls ELSE 0
         /\ last' = Call("free", 0, 0, blockAddr, NULL)
         /\ twin' = [twin EXCEPT
                       !.pool = t.pool,
                       !.mem = t.mem,
                       !.ub = t.ub,
                       !.held = @ \ {other},
                       !.last = Call("free", 0, 0, other, NULL)]
    /\ UNCHANGED <<impl, state, poolPtr, heap, attempts, ctx>>

PairDestroy ==
    /\ ~ub /\ ~twin.ub
    /\ state \in {"Active", "Uninitialized"}
    /\ twin.state \in {"Active", "Uninitialized"}
    /\ heap' = Main_destroyMemoryPool(poolPtr, pool, heap)
    /\ state' = IF poolPtr = NULL THEN state ELSE "Destroyed"
    /\ last' = Call("destroy", 0, 0, poolPtr, NULL)
    /\ twin' = [twin EXCEPT
                  !.heap = Part_destroyMemoryPool(twin.poolPtr, twin.pool,
                                                  twin.heap),
                  !.state = IF twin.poolPtr = NULL THEN @ ELSE "Destroyed",
                  !.last = Call("destroy", 0, 0, twin.poolPtr, NULL)]
    /\ UNCHANGED <<impl, poolPtr, pool, mem, held, attempts, fresh, calls, ub,
                   ctx>>

NextPair == PairCreate \/ PairAllocate \/ PairFree \/ PairDestroy

SpecPair == InitPair /\ [][NextPair]_vars

\* ------------------------------------------------------ concurrent callers
\* Two execution contexts call allocateBlock and freeBlock of src/main.cpp on
\* one pool.  Each load and each store of shared memory (pool->freeList, a
\* block's link word) is a step of its own; the code has no atomics, so the
\* compiler may read pool->freeList again for pool->freeList->next or use
\* the value it already has in block.  With ctx.sync the callers take an
\* external lock around every call; without it the calls interleave freely.
InitRace ==
    /\ impl = "main"
    /\ state = "Active"
    /\ \E blockSize \in BlockSizes, poolSize \in PoolSizes :
         \E o \in Main_createMemoryPool(blockSize, poolSize, EmptyHeap) :
            /\ o.kind = "pool"
            /\ ~o.ub
            /\ \A a \in MallocAddrs : o.pool.memoryStart <= a
            /\ poolPtr = o.ret
            /\ pool = o.pool
            /\ mem = o.mem
            /\ heap = o.heap
            /\ last = Call("create", blockSize, poolSize, NULL, o.ret)
    /\ held = {}
    /\ attempts = 1
    /\ fresh = TRUE
    /\ calls = 0
    /\ ub = FALSE
    /\ twin = NoTwin
    /\ ctx \in {[NoCtx EXCEPT !.sync = b] : b \in BOOLEAN}

AllHeld(cx) == UNION {cx.heldBy[c] : c \in Ctxs}

Quiescent == \A c \in Ctxs : ctx.pc[c] = "idle"

\* Both contexts were handed the same block.
DoublePop == ctx.heldBy[1] \cap ctx.heldBy[2] # {}

\* A block a caller holds is on the free list as well.
HeldOnList == FreeSet(pool, mem) \cap AllHeld(ctx) # {}

\* A block is on no list and in no caller's hands.
LostBlock ==
    Quiescent /\ FreeSet(pool, mem) \cup AllHeld(ctx) # BlockAddrs(pool)

\* A context may start a call: it is outside any call and, where calls are
\* synchronized, no other context is inside one.  Without synchronization
\* a run is followed for MaxRaceCalls calls.
CanEnter(c) ==
    /\ ctx.pc[c] = "idle"
    /\ ctx.sync => ctx.lock = 0
    /\ ~ctx.sync => ctx.n < MaxRaceCalls

\* Calls started without synchronization.
Entered == IF ctx.sync THEN 0 ELSE ctx.n + 1

\* pool->freeList->next: the link word of the current head, or of block.
Race_allocNext(p, m, block) ==
    UNION {PtrValues(m, b) : b \in {p.freeList, block}}

\* Mutant: the store of the new head is lost.
Mut_freeStore_Lost(p, block) == p

\* pool->freeList = block
Race_freeStore(p, block) == [p EXCEPT !.freeList = block]

\* if (!pool || !pool->freeList) return NULL;
AllocTest ==
    /\ ~ub
    /\ \E c \in Ctxs :
         /\ CanEnter(c)
         /\ IF pool.freeList = NULL
            THEN ctx' = ctx
            ELSE ctx' = [ctx EXCEPT !.pc[c] = "alloc_load",
                                    !.n = Entered,
                                    !.lock = IF ctx.sync THEN c ELSE 0]
    /\ UNCHANGED <<impl, state, poolPtr, pool, mem, held, heap, last,
                   attempts, fresh, calls, ub, twin>>

\* MemoryBlock_t* block = pool->freeList;
AllocLoad ==
    /\ ~ub
    /\ \E c \in Ctxs :
         /\ ctx.pc[c] = "alloc_load"
         /\ ctx' = [ctx EXCEPT !.pc[c] = "alloc_next",
                               !.block[c] = pool.freeList]
    /\ UNCHANGED <<impl, state, poolPtr, pool, mem, held, heap, last,
                   attempts, fresh, calls, ub, twin>>

\* ... = pool->freeList->next
AllocNext ==
    /\ ~ub
    /\ \E c \in Ctxs :
         /\ ctx.pc[c] = "alloc_next"
         /\ \E nx \in Race_allocNext(pool, mem, ctx.block[c]) :
              ctx' = [ctx EXCEPT !.pc[c] = "alloc_store", !.tmp[c] = nx]
         /\ ub' = (pool.freeList = NULL \/ ctx.block[c] = NULL)
    /\ UNCHANGED <<impl, state, poolPtr, pool, mem, held, heap, last,
                   attempts, fresh, calls, twin>>

\* pool->freeList = ...; return (void*)block;
AllocStore ==
    /\ ~ub
    /\ \E c \in Ctxs :
         /\ ctx.pc[c] = "alloc_store"
         /\ pool' = [pool EXCEPT !.freeList = ctx.tmp[c]]
         /\ ctx' = [ctx EXCEPT !.pc[c] = "idle",
                               !.lock = 0,
                               !.heldBy[c] = @ \cup {ctx.block[c]},
                               !.block[c] = NULL,
                               !.tmp[c] = NULL]
         /\ held' = AllHeld(ctx')
    /\ UNCHANGED <<impl, state, poolPtr, mem, heap, last, attempts, fresh,
                   calls, ub, twin>>

\* if (!pool || !blockAddr) return; MemoryBlock_t* block = blockAddr;
FreeCall ==
    /\ ~ub
    /\ \E c \in Ctxs :
         /\ CanEnter(c)
         /\ \E blockAddr \in ctx.heldBy[c] :
              ctx' = [ctx EXCEPT !.pc[c] = "free_load",
                                 !.n = Entered,
                                 !.lock = IF ctx.sync THEN c ELSE 0,
                                 !.block[c] = blockAddr,
                                 !.heldBy[c] = @ \ {blockAddr}]
         /\ held' = AllHeld(ctx')
    /\ UNCHANGED <<impl, state, poolPtr, pool, mem, heap, last, attempts,
                   fresh, calls, ub, twin>>

\* ... = pool->freeList
FreeLoad ==
    /\ ~ub
    /\ \E c \in Ctxs :
         /\ ctx.pc[c] = "free_load"
         /\ ctx' = [ctx EXCEPT !.pc[c] = "free_link",
                               !.tmp[c] = pool.freeList]
    /\ UNCHANGED <<impl, state, poolPtr, pool, mem, held, heap, last,
                   attempts, fresh, calls, ub, twin>>

\* block->next = ...
FreeLink ==
    /\ ~ub
    /\ \E c \in Ctxs :
         /\ ctx.pc[c] = "free_link"
         /\ mem' = WritePtr(mem, ctx.block[c], ctx.tmp[c])
         /\ ctx' = [ctx EXCEPT !.pc[c] = "free_store", !.tmp[c] = NULL]
    /\ UNCHANGED <<impl, state, poolPtr, pool, held, heap, last, attempts,
                   fresh, calls, ub, twin>>

\* pool->freeList = block;
FreeStore ==
    /\ ~ub
    /\ \E c \in Ctxs :
         /\ ctx.pc[c] = "free_store"
         /\ pool' = Race_freeStore(pool, ctx.block[c])
         /\ ctx' = [ctx EXCEPT !.pc[c] = "idle",
                               !.lock = 0,
                               !.block[c] = NULL]
    /\ UNCHANGED <<impl, state, poolPtr, mem, held, heap, last, attempts,
                   fresh, calls, ub, twin>>

NextRace ==
    \/ AllocTest \/ AllocLoad \/ AllocNext \/ AllocStore
    \/ FreeCall \/ FreeLoad \/ FreeLink \/ FreeStore

SpecRace == InitRace /\ [][NextRace]_vars

\* ------------------------------------------------------------------ claims

\* C1: partition invariant.  For a pool created with valid arguments, after
\* any sequence of allocateBlock / freeBlock calls that free only held
\* handles, the blocks reachable from freeList and the blocks held by callers
\* are disjoint and together are exactly the numBlocks blocks carved at
\* creation.
C1_Partition ==
    ValidActive =>
        /\ FreeSet(pool, mem) \cap held = {}
        /\ FreeSet(pool, mem) \cup held = BlockAddrs(pool)
        /\ Cardinality(BlockAddrs(pool)) = pool.poolSize \div pool.blockSize

C1_Witness ==
    /\ ValidActive
    /\ ~fresh
    /\ last.op = "free" /\ last.arg # NULL
    /\ Cardinality(held) >= 2
    /\ Cardinality(FreeSet(pool, mem)) >= 2
    /\ pool.freeList # pool.memoryStart

\* C2: bounds and alignment.  Under valid use every address on the free list
\* and every non-null address allocateBlock returned lies in
\* [memoryStart, memoryEnd) at a multiple of blockSize from memoryStart, also
\* when poolSize is not a multiple of blockSize.
C2_BoundsAligned ==
    ValidActive =>
        /\ \A a \in FreeSet(pool, mem) \cup held : InBounds(pool, a)
        /\ (last.op = "allocate" /\ last.ret # NULL) => InBounds(pool, last.ret)

C2_Witness ==
    /\ ValidActive
    /\ pool.poolSize % pool.blockSize # 0
    /\ last.op = "allocate" /\ last.ret # NULL
    /\ last.ret + pool.blockSize + pool.blockSize > pool.memoryEnd
    /\ FreeSet(pool, mem) # {}

\* C3: LIFO reuse.  Right after freeBlock(pool, B) of a held block B the
\* free-list head is B, and an allocateBlock call that follows immediately
\* returns exactly B.
C3_Lifo ==
    [][/\ (state' = "Active" /\ last'.op = "free" /\ last'.arg # NULL)
            => pool'.freeList = last'.arg
       /\ (state = "Active" /\ last.op = "free" /\ last.arg # NULL
              /\ last'.op = "allocate")
            => last'.ret = last.arg]_vars

C3_Witness ==
    /\ state = "Active"
    /\ last.op = "free" /\ last.arg # NULL
    /\ pool.freeList = last.arg
    /\ ReadPtr(mem, pool.freeList) # NULL
    /\ \E a, b \in held : a < last.arg /\ last.arg < b

\* C4: exhaustion.  On a freshly created pool each of the first
\* numBlocks = poolSize / blockSize allocateBlock calls, with no freeBlock of
\* a block in between, returns a non-null handle, and the next call returns
\* NULL.
C4_Exhaustion ==
    (ValidActive /\ fresh /\ last.op = "allocate") =>
        /\ calls <= NumBlocks(pool) => last.ret # NULL
        /\ calls > NumBlocks(pool) => last.ret = NULL
        /\ Cardinality(held) = (IF calls <= NumBlocks(pool)
                                THEN calls ELSE NumBlocks(pool))

C4_Witness ==
    /\ ValidActive /\ fresh
    /\ last.op = "allocate" /\ last.ret = NULL
    /\ calls = NumBlocks(pool) + 1
    /\ NumBlocks(pool) >= 3
    /\ pool.poolSize % pool.blockSize # 0

\* C5 as stated: on a freshly created pool the first allocateBlock call
\* returns the block at memoryStart, the free list built by createMemoryPool
\* being in low-address-first order.
C5_LowestFirst ==
    /\ (ValidActive /\ last.op = "create") =>
          FreeListSeq(pool, mem) =
              [k \in 1..NumBlocks(pool) |->
                  pool.memoryStart + (k - 1) * pool.blockSize]
    /\ (ValidActive /\ fresh /\ calls = 1 /\ last.op = "allocate") =>
          last.ret = pool.memoryStart

\* C5 as amended: the free list built by createMemoryPool is in
\* high-address-first order, and on a freshly created pool the first
\* allocateBlock call returns the highest-offset block,
\* memoryStart + (numBlocks - 1) * blockSize.
C5_HighestFirst ==
    /\ (ValidActive /\ last.op = "create") =>
          FreeListSeq(pool, mem) =
              [k \in 1..NumBlocks(pool) |->
                  pool.memoryStart + (NumBlocks(pool) - k) * pool.blockSize]
    /\ (ValidActive /\ fresh /\ calls = 1 /\ last.op = "allocate") =>
          last.ret = pool.memoryStart + (NumBlocks(pool) - 1) * pool.blockSize

C5_Witness ==
    /\ ValidActive /\ fresh
    /\ calls = 1 /\ last.op = "allocate"
    /\ NumBlocks(pool) >= 3
    /\ last.ret # pool.memoryStart

\* C6: creation result.  A successful createMemoryPool(blockSize, poolSize)
\* (arguments within the creation contract) returns a pool whose blockSize
\* and poolSize are the arguments, whose memoryEnd is memoryStart + poolSize,
\* and whose free list is non-empty and holds exactly the
\* floor(poolSize / blockSize) addresses memoryStart + i * blockSize;
\* the remainder bytes at the end belong to no block and are never written.
C6_CreationResult ==
    (state = "Active" /\ last.op = "create" /\ last.ret # NULL
        /\ ContractOk(last.blockSize, last.poolSize)) =>
        LET n == last.poolSize \div last.blockSize IN
        /\ poolPtr = last.ret
        /\ pool.blockSize = last.blockSize
        /\ pool.poolSize = last.poolSize
        /\ pool.memoryEnd = pool.memoryStart + last.poolSize
        /\ [addr |-> pool.memoryStart, size |-> last.poolSize] \in heap.live
        /\ pool.freeList # NULL
        /\ Len(FreeListSeq(pool, mem)) = n
        /\ FreeSet(pool, mem) =
              {pool.memoryStart + i * last.blockSize : i \in 0..(n - 1)}
        /\ \A a \in FreeSet(pool, mem) : a + last.blockSize <= pool.memoryEnd
        /\ \A x \in (pool.memoryStart + n * last.blockSize)
                        ..(pool.memoryEnd - 1) :
              x \in DOMAIN mem /\ mem[x] = Indet

C6_Witness ==
    /\ state = "Active" /\ last.op = "create" /\ last.ret # NULL
    /\ impl = "part_000"
    /\ ContractOk(last.blockSize, last.poolSize)
    /\ last.poolSize % last.blockSize # 0
    /\ Len(FreeListSeq(pool, mem)) >= 3

\* C7: size precondition.  A createMemoryPool call with blockSize = 0 or
\* poolSize <= blockSize fails the assertion before any memory is acquired,
\* in both implementations, and no pool with zero blocks is ever produced.
C7_SizePrecondition ==
    [][/\ (attempts' = attempts + 1
              /\ (last'.blockSize = 0 \/ last'.poolSize <= last'.blockSize))
            => /\ state' = "Aborted"
               /\ poolPtr' = NULL
               /\ heap' = heap
       /\ state' = "Active" => NumBlocks(pool') >= 1]_vars

C7_Witness ==
    /\ state = "Aborted"
    /\ impl = "part_000"
    /\ last.op = "create"
    /\ last.blockSize >= PtrSize /\ last.blockSize % PtrSize = 0
    /\ last.poolSize = last.blockSize
    /\ heap.acquired = SumSizes(heap.live)

\* C8: block-size precondition.  In every implementation a createMemoryPool
\* call whose blockSize is smaller than one link pointer or not a multiple
\* of the pointer alignment (with poolSize > blockSize) is rejected and
\* returns no pool, so that no block's link word overlaps the next block or
\* extends past memoryEnd.
C8_BlockSizeRejected ==
    /\ (last.op = "create" /\ last.poolSize > last.blockSize
           /\ (last.blockSize < PtrSize \/ last.blockSize % PtrSize # 0))
         => (last.ret = NULL /\ state # "Active")
    /\ state = "Active" =>
          \A a \in BlockAddrs(pool) :
              /\ a + PtrSize <= a + pool.blockSize
              /\ a + PtrSize <= pool.memoryEnd

\* C9: creation failure leaves no partial state.  When createMemoryPool
\* returns NULL, either the region was not acquired and nothing changed, or
\* the region was acquired and released again; either way the outstanding
\* external allocations after the call are those before it.
C9_NoPartialState ==
    [][(attempts' = attempts + 1 /\ state' = "Uninitialized")
          => /\ last'.ret = NULL /\ poolPtr' = NULL
             /\ heap'.live = heap.live
             /\ \/ heap' = heap
                \/ /\ heap'.acquired = heap.acquired + last'.poolSize
                   /\ heap'.released = heap.released + last'.poolSize
                   /\ Len(heap'.log) = Len(heap.log) + 1
                   /\ heap'.log[Len(heap'.log)] \in MallocAddrs]_vars

C9_Witness ==
    /\ state = "Uninitialized"
    /\ last.op = "create" /\ last.ret = NULL
    /\ Len(heap.log) >= 1
    /\ heap.released = last.poolSize
    /\ heap.live = {Foreign}

\* C10: destroy resource balance.  destroyMemoryPool of a created pool, after
\* any allocateBlock / freeBlock calls, releases exactly the region and the
\* descriptor acquired at creation, each once, so that the bytes acquired
\* for the pool equal the bytes released, however many blocks callers hold.
C10_DestroyBalance ==
    [][(state = "Active" /\ state' = "Destroyed")
          => LET region == [addr |-> pool.memoryStart, size |-> pool.poolSize]
                 desc == [addr |-> poolPtr, size |-> DescSize]
             IN /\ region \in heap.live /\ desc \in heap.live
                /\ region # desc
                /\ heap'.live = heap.live \ {region, desc}
                /\ heap'.live \subseteq {Foreign}
                /\ heap'.released = heap.released + pool.poolSize + DescSize
                /\ heap'.acquired - heap'.released = SumSizes(heap'.live)
                /\ Len(heap'.log) = Len(heap.log) + 2
                /\ {heap'.log[Len(heap.log) + 1], heap'.log[Len(heap.log) + 2]}
                      = {pool.memoryStart, poolPtr}]_vars

C10_Witness ==
    /\ state = "Destroyed"
    /\ Cardinality(held) >= 2
    /\ ~fresh
    /\ heap.live = {Foreign}
    /\ heap.acquired - heap.released = Foreign.size

\* C11: no double allocation.  allocateBlock never returns a handle a caller
\* holds: each non-null handle it returns is new to the held set, so any two
\* handles held together are distinct, it is non-null while blocks remain,
\* and it is not reachable from freeList once returned.
C11_NoDoubleAllocation ==
    [][(state = "Active" /\ last'.op = "allocate")
          => /\ pool.freeList # NULL => last'.ret # NULL
             /\ last'.ret # NULL =>
                   /\ last'.ret \notin held
                   /\ Cardinality(held') = Cardinality(held) + 1
                   /\ last'.ret \notin FreeSet(pool', mem')]_vars

C11_Witness ==
    /\ ValidActive
    /\ ~fresh
    /\ last.op = "allocate" /\ last.ret # NULL
    /\ Cardinality(held) >= 3
    /\ last.ret \in held
    /\ last.ret \notin FreeSet(pool, mem)

\* C12: Empty is a checkable non-error result.  allocateBlock on a pool whose
\* free list is empty returns NULL and changes nothing (freeList, link words,
\* descriptor fields), however often it is repeated; an allocateBlock right
\* after a freeBlock of a held block succeeds.
C12_EmptyResult ==
    [][/\ (state = "Active" /\ pool.freeList = NULL /\ last'.op = "allocate")
            => /\ last'.ret = NULL
               /\ pool' = pool /\ mem' = mem /\ held' = held
               /\ heap' = heap /\ state' = state /\ poolPtr' = poolPtr
       /\ (state = "Active" /\ last.op = "free" /\ last.arg # NULL
              /\ last'.op = "allocate")
            => last'.ret # NULL]_vars

C12_Witness ==
    /\ ValidActive /\ fresh
    /\ last.op = "allocate" /\ last.ret = NULL
    /\ pool.freeList = NULL
    /\ calls >= NumBlocks(pool) + 2
    /\ NumBlocks(pool) >= 2

\* C13: freeBlock with a null handle is a no-op: freeList, every link word
\* and every descriptor field stay as they were.
C13_FreeNullNoOp ==
    [][(last'.op = "free" /\ last'.arg = NULL)
          => /\ pool' = pool /\ mem' = mem /\ held' = held
             /\ heap' = heap /\ state' = state /\ poolPtr' = poolPtr
             /\ ub' = ub]_vars

C13_Witness ==
    /\ state = "Active"
    /\ last.op = "free" /\ last.arg = NULL
    /\ held # {}
    /\ Len(FreeListSeq(pool, mem)) >= 2

\* C14: lifecycle.  A pool becomes Active only by a successful
\* createMemoryPool from Uninitialized, and leaves Active only by
\* destroyMemoryPool, to Destroyed; allocateBlock and freeBlock release
\* nothing and keep the state; destroyMemoryPool releases the region before
\* the descriptor; nothing leaves Destroyed.
C14_Lifecycle ==
    [][/\ (state # "Active" /\ state' = "Active")
            => /\ state = "Uninitialized"
               /\ last'.op = "create" /\ last'.ret # NULL
               /\ poolPtr' = last'.ret
       /\ (state = "Active" /\ state' # "Active")
            => /\ state' = "Destroyed"
               /\ last'.op = "destroy"
               /\ heap'.log = heap.log \o <<pool.memoryStart, poolPtr>>
       /\ last'.op \in {"allocate", "free"}
            => /\ state' = state
               /\ heap' = heap
       /\ state = "Destroyed" => state' = "Destroyed"]_vars

C14_Witness ==
    /\ state = "Destroyed"
    /\ impl = "part_000"
    /\ fresh
    /\ held # {}
    /\ heap.log = <<pool.memoryStart, poolPtr>>
    /\ pool.memoryStart # poolPtr

\* C15: free-list well-formedness.  Under valid use the walk from freeList
\* visits no address twice and reaches NULL after exactly
\* numBlocks - (number of held blocks) steps.
C15_WellFormed ==
    ValidActive =>
        LET seq == FreeListSeq(pool, mem) IN
        /\ Len(seq) = NumBlocks(pool) - Cardinality(held)
        /\ \A i, j \in 1..Len(seq) : i # j => seq[i] # seq[j]
        /\ IF Len(seq) = 0 THEN pool.freeList = NULL
           ELSE /\ Readable(mem, seq[Len(seq)])
                /\ ReadPtr(mem, seq[Len(seq)]) = NULL

C15_Witness ==
    /\ ValidActive
    /\ ~fresh
    /\ Cardinality(held) >= 1
    /\ Len(FreeListSeq(pool, mem)) >= 3
    /\ \E k \in 1..(Len(FreeListSeq(pool, mem)) - 1) :
          FreeListSeq(pool, mem)[k] < FreeListSeq(pool, mem)[k + 1]

\* C16: frame of allocate / free.  Neither call changes blockSize, poolSize,
\* memoryStart or memoryEnd; allocateBlock changes only freeList and writes
\* no link word, so the returned block still holds its next link; and
\* freeBlock(pool, B) changes only freeList and the link word of B.
C16_Frame ==
    [][(state = "Active" /\ last'.op \in {"allocate", "free"})
          => /\ pool' = [pool EXCEPT !.freeList = pool'.freeList]
             /\ poolPtr' = poolPtr /\ heap' = heap
             /\ DOMAIN mem' = DOMAIN mem
             /\ last'.op = "allocate"
                  => /\ mem' = mem
                     /\ last'.ret # NULL
                          => /\ last'.ret = pool.freeList
                             /\ ReadPtr(mem', last'.ret) = pool'.freeList
             /\ (last'.op = "free" /\ last'.arg # NULL)
                  => /\ pool'.freeList = last'.arg
                     /\ ReadPtr(mem', last'.arg) = pool.freeList
                     /\ \A x \in DOMAIN mem :
                           (x < last'.arg \/ x >= last'.arg + PtrSize)
                              => mem'[x] = mem[x]]_vars

C16_Witness ==
    /\ state = "Active"
    /\ last.op = "allocate" /\ last.ret # NULL
    /\ pool.freeList # NULL
    /\ Readable(mem, last.ret)
    /\ ReadPtr(mem, last.ret) = pool.freeList
    /\ Cardinality(held) >= 2

\* C20: allocate / free round trip.  In any reachable state with a non-empty
\* free list, allocateBlock followed at once by freeBlock of the handle it
\* returned restores freeList, the sequence of free blocks and every link
\* word.
C20_RoundTrip ==
    (state = "Active" /\ ~ub /\ pool.freeList # NULL) =>
        \A o \in allocateBlock(impl, poolPtr, pool, mem) :
            LET r == freeBlock(impl, poolPtr, o.pool, o.mem, o.ret) IN
            /\ o.ret # NULL
            /\ r.pool = pool
            /\ r.mem = mem
            /\ FreeListSeq(r.pool, r.mem) = FreeListSeq(pool, mem)

C20_Witness ==
    /\ state = "Active"
    /\ ~fresh
    /\ last.op = "free" /\ last.arg # NULL
    /\ pool.freeList = last.arg
    /\ Len(FreeListSeq(pool, mem)) >= 3
    /\ Cardinality(held) = 1

\* C19: double free is undetected and corrupts the list.  A second
\* freeBlock(pool, B) right after the first is accepted and leaves B at the
\* head with its link word pointing to B itself; while that one-element cycle
\* is at the head every allocateBlock returns B, never NULL, and leaves the
\* cycle in place.
C19_DoubleFreeCycle ==
    [][/\ (state = "Active" /\ Readable(mem, last.arg)
              /\ last.op = "free" /\ last.arg # NULL
              /\ last'.op = "free" /\ last'.arg = last.arg)
            => /\ state' = "Active"
               /\ pool'.freeList = last.arg
               /\ ReadPtr(mem', last.arg) = last.arg
               /\ heap' = heap
       /\ (HeadCycle /\ last'.op = "allocate")
            => /\ last'.ret = pool.freeList
               /\ last'.ret # NULL
               /\ pool'.freeList = pool.freeList
               /\ mem' = mem]_vars

C19_Witness ==
    /\ ValidActive
    /\ NumBlocks(pool) >= 2
    /\ last.op = "allocate" /\ last.ret # NULL
    /\ pool.freeList = last.ret
    /\ ReadPtr(mem, last.ret) = last.ret
    /\ last.ret \in held
    /\ Cardinality(held) >= 2

\* C18: the two implementations are observationally equivalent on valid use.
\* Given the same valid createMemoryPool arguments and then the same
\* allocateBlock / freeBlock / destroyMemoryPool calls, after every call both
\* are in the same lifecycle state, have returned the same handle (as an
\* offset from memoryStart), have the same free list (as offsets) and the
\* same balance with the external allocator.
Offsets(seq, base) == [k \in 1..Len(seq) |-> seq[k] - base]

C18_Equivalent ==
    /\ twin.state = state
    /\ twin.ub = ub
    /\ (twin.poolPtr = NULL) = (poolPtr = NULL)
    /\ twin.last.op = last.op
    /\ (twin.last.ret = NULL) = (last.ret = NULL)
    /\ Len(twin.heap.log) = Len(heap.log)
    /\ twin.heap.acquired = heap.acquired
    /\ twin.heap.released = heap.released
    /\ Cardinality(twin.heap.live) = Cardinality(heap.live)
    /\ state \in {"Active", "Destroyed"} =>
          /\ twin.pool.blockSize = pool.blockSize
          /\ twin.pool.poolSize = pool.poolSize
          /\ twin.pool.memoryEnd - twin.pool.memoryStart
                = pool.memoryEnd - pool.memoryStart
          /\ last.op = "allocate" =>
                Rebase(last.ret, pool.memoryStart, twin.pool.memoryStart)
                   = twin.last.ret
          /\ Offsets(FreeListSeq(twin.pool, twin.mem), twin.pool.memoryStart)
                = Offsets(FreeListSeq(pool, mem), pool.memoryStart)
          /\ {a - twin.pool.memoryStart : a \in twin.held}
                = {a - pool.memoryStart : a \in held}

C18_Witness ==
    /\ state = "Active" /\ twin.state = "Active"
    /\ ~fresh
    /\ pool.memoryStart # twin.pool.memoryStart
    /\ pool.poolSize % pool.blockSize # 0
    /\ last.op = "allocate" /\ last.ret # NULL
    /\ twin.last.ret - twin.pool.memoryStart = last.ret - pool.memoryStart
    /\ Cardinality(held) >= 2
    /\ pool.freeList # NULL

\* C17: unsynchronized race.  With every call run under external mutual
\* exclusion, whenever no call is in progress the blocks of the free list and
\* the blocks the two contexts hold are disjoint, without repetition, and
\* together exactly the blocks carved at creation.  Without the exclusion a
\* state is reached where both contexts hold the same block (double pop), or
\* where a freed block is neither on the free list nor held (lost update).
C17_LockedPartition ==
    (ctx.sync /\ Quiescent /\ state = "Active") =>
        /\ ~ub
        /\ ctx.lock = 0
        /\ ctx.heldBy[1] \cap ctx.heldBy[2] = {}
        /\ FreeSet(pool, mem) \cap AllHeld(ctx) = {}
        /\ FreeSet(pool, mem) \cup AllHeld(ctx) = BlockAddrs(pool)
        /\ Len(FreeListSeq(pool, mem)) = Cardinality(FreeSet(pool, mem))

\* Double pop without the exclusion.
C17_Witness ==
    /\ ~ctx.sync /\ ~ub
    /\ DoublePop /\ Quiescent
    /\ ~HeldOnList

\* Lost update without the exclusion.
LostUpdate ==
    /\ ~ctx.sync /\ ~ub
    /\ LostBlock /\ ~DoublePop
    /\ ~HeldOnList

\* The synchronized callers do allocate and free.
LockedUse ==
    /\ ctx.sync /\ Quiescent
    /\ ctx.heldBy[1] # {} /\ ctx.heldBy[2] # {}
    /\ Len(FreeListSeq(pool, mem)) >= 2
    /\ FreeListSeq(pool, mem)[1] < FreeListSeq(pool, mem)[2]

====
